---- MODULE Spec2Model ----
(***************************************************************************)
(* Multi-model ensemble extraction: the consensus engine                   *)
(* (etl_ensemble/consensus_engine.py), the backend client                  *)
(* (etl_ensemble/llm_multi_client.py), the focused re-extraction           *)
(* (etl_ensemble/focused_reextractor.py), the review recorder              *)
(* (nfp_etl_multi/review_manager.py) and the per-document driver           *)
(* run_one_pdf (run_etl_ensemble.py).                                      *)
(*                                                                         *)
(* JSON values.  A scalar is a record [k, n, s]: k is its kind ("null",    *)
(* "num", "str"), n the number in tenths (720 is 72.0), s the string as a  *)
(* sequence of one-character strings.  What a response stores under a key  *)
(* is an entry [holder, v]: holder is TRUE for a mapping that has the key  *)
(* 'value' ({"value": v, "_src": ...}), FALSE for the plain scalar v.      *)
(* A response is [kind, items]: kind is "dict" for a mapping, whose items   *)
(* maps the keys present to entries, "null" for None and "list" for any    *)
(* other value that is not a mapping.                                      *)
(***************************************************************************)
EXTENDS Integers, Sequences, FiniteSets, TLC

\* ------------------------------------------------------------------ bounds
MaxModels == 2

\* --------------------------------------------------------------- constants
\* thresholds of compare_outputs: numeric_relative_tol 0.01 = 1/100,
\* numeric_abs_tol 1.0 = 10 tenths
RelTolPercent == 1
AbsTolTenths == 10

\* ------------------------------------------------------------------ values
NullV == [k |-> "null", n |-> 0, s |-> <<>>]
NumV(x) == [k |-> "num", n |-> x, s |-> <<>>]
StrV(t) == [k |-> "str", n |-> 0, s |-> t]
\* True / False: n is float(b) in tenths
BoolV(b) == [k |-> "bool", n |-> IF b THEN 10 ELSE 0, s |-> <<>>]
\* a JSON list and a nested mapping without a value key; s is str(x)
ListV(t) == [k |-> "list", n |-> 0, s |-> t]
ObjV(t) == [k |-> "obj", n |-> 0, s |-> t]

Plain(v) == [holder |-> FALSE, v |-> v]
Holder(v) == [holder |-> TRUE, v |-> v]

EmptyItems == [x \in {} |-> Plain(NullV)]
DictResp(items) == [kind |-> "dict", items |-> items]
IsDict(resp) == resp.kind = "dict"

ErrorKey == "error"
ErrorMsg == <<"e", "r", "r">>
\* {"error": str(e)}
ErrorMarker == DictResp([x \in {ErrorKey} |-> Plain(StrV(ErrorMsg))])

Abs(x) == IF x < 0 THEN -x ELSE x
Max(a, b) == IF a >= b THEN a ELSE b

\* ------------------------------------------------------- strings (python)
IsSpace(c) == c \in {" ", "\t"}
IsDigit(c) == c \in {"0", "1", "2", "3", "4", "5", "6", "7", "8", "9"}
DigitVal(c) ==
  CASE c = "0" -> 0 [] c = "1" -> 1 [] c = "2" -> 2 [] c = "3" -> 3 [] c = "4" -> 4
    [] c = "5" -> 5 [] c = "6" -> 6 [] c = "7" -> 7 [] c = "8" -> 8 [] OTHER -> 9
DigitChar(d) ==
  CASE d = 0 -> "0" [] d = 1 -> "1" [] d = 2 -> "2" [] d = 3 -> "3" [] d = 4 -> "4"
    [] d = 5 -> "5" [] d = 6 -> "6" [] d = 7 -> "7" [] d = 8 -> "8" [] OTHER -> "9"

\* str.lower on the characters the model uses
LowerChar(c) ==
  CASE c = "A" -> "a" [] c = "B" -> "b" [] c = "C" -> "c" [] c = "D" -> "d"
    [] c = "S" -> "s" [] c = "T" -> "t" [] OTHER -> c
Lower(t) == [i \in 1..Len(t) |-> LowerChar(t[i])]

RECURSIVE LStrip(_)
LStrip(t) == IF t # <<>> /\ IsSpace(Head(t)) THEN LStrip(Tail(t)) ELSE t
RECURSIVE RStrip(_)
RStrip(t) ==
  IF t # <<>> /\ IsSpace(t[Len(t)]) THEN RStrip(SubSeq(t, 1, Len(t) - 1)) ELSE t
\* str.strip
Strip(t) == RStrip(LStrip(t))

\* re.sub(r'\s+', ' ', t)
RECURSIVE CollapseWs(_)
CollapseWs(t) ==
  IF t = <<>> THEN <<>>
  ELSE IF IsSpace(Head(t))
       THEN <<" ">> \o CollapseWs(LStrip(t))
       ELSE <<Head(t)>> \o CollapseWs(Tail(t))

RECURSIVE NatDigits(_)
NatDigits(x) ==
  IF x < 10 THEN <<DigitChar(x)>> ELSE NatDigits(x \div 10) \o <<DigitChar(x % 10)>>
\* str(x) of a float given in tenths: 720 -> "72.0"
FloatStr(x) ==
  (IF x < 0 THEN <<"-">> ELSE <<>>) \o NatDigits(Abs(x) \div 10) \o <<".">>
    \o <<DigitChar(Abs(x) % 10)>>

\* str(value)
PyStr(v) ==
  CASE v.k \in {"str", "list", "obj"} -> v.s
    [] v.k = "num" -> FloatStr(v.n)
    [] v.k = "bool" -> IF v.n = 0 THEN <<"F", "a", "l", "s", "e">>
                       ELSE <<"T", "r", "u", "e">>
    [] OTHER -> <<"N", "o", "n", "e">>

RECURSIVE DigitsVal(_)
DigitsVal(t) ==
  IF t = <<>> THEN 0 ELSE 10 * DigitsVal(SubSeq(t, 1, Len(t) - 1)) + DigitVal(t[Len(t)])
AllDigits(t) == t # <<>> /\ \A i \in 1..Len(t) : IsDigit(t[i])

\* float(t) for the decimal forms "d+" and "d+.d" (surrounding blanks are
\* accepted by float); the result in tenths, -1 when float raises
ParseFloat(t) ==
  LET u == Strip(t) IN
  IF AllDigits(u) THEN 10 * DigitsVal(u)
  ELSE IF Len(u) >= 3 /\ u[Len(u) - 1] = "." /\ IsDigit(u[Len(u)])
          /\ AllDigits(SubSeq(u, 1, Len(u) - 2))
       THEN 10 * DigitsVal(SubSeq(u, 1, Len(u) - 2)) + DigitVal(u[Len(u)])
       ELSE -1

\* ------------------------------------------------------- consensus engine
\* float(x) raises: TypeError for None, a list or a mapping, ValueError for
\* a string that is no decimal number
FloatRaises(v) ==
  CASE v.k \in {"num", "bool"} -> FALSE
    [] v.k = "str" -> ParseFloat(v.s) < 0
    [] OTHER -> TRUE

\* is_number with the test left out for everything that is not a string
is_number_unguarded(v) == v.k # "str" \/ ParseFloat(v.s) >= 0

is_number(v) ==
  CASE v.k \in {"num", "bool"} -> TRUE
    [] v.k = "str" -> ParseFloat(v.s) >= 0
    [] OTHER -> FALSE

\* float(value), for values that pass is_number
ToFloat(v) == IF v.k \in {"num", "bool"} THEN v.n ELSE ParseFloat(v.s)

\* numeric_close with the relative tolerance alone
numeric_close_rel(a, b) == 100 * Abs(a - b) <= RelTolPercent * Max(Abs(a), Abs(b))

\* numeric_close with the absolute tolerance alone
numeric_close_abs(a, b) == Abs(a - b) <= AbsTolTenths

\* math.isclose(a, b, rel_tol, abs_tol):
\*   |a-b| <= max(rel_tol * max(|a|,|b|), abs_tol)
numeric_close(a, b) ==
  100 * Abs(a - b) <= Max(RelTolPercent * Max(Abs(a), Abs(b)), 100 * AbsTolTenths)

\* norm without lower()
norm_keeps_case(v) == CollapseWs(Strip(PyStr(v)))

\* norm = lambda s: re.sub(r'\s+',' ', str(s).strip().lower())
norm(v) == CollapseWs(Lower(Strip(PyStr(v))))

\* mr.get('resp') or {}
RespOrEmpty(resp) == IF resp.kind = "null" THEN DictResp(EmptyItems) ELSE resp

\* the value of one candidate (the body of the first loop)
CandidateValue(v) ==
  IF IsDict(v.resp) /\ v.field \in DOMAIN v.resp.items /\ v.resp.items[v.field].holder
  THEN v.resp.items[v.field].v
  ELSE IF v.hasValue THEN v.value
       ELSE IF IsDict(v.resp)
            THEN (IF v.field \in DOMAIN v.resp.items
                  THEN v.resp.items[v.field].v ELSE NullV)
            ELSE StrV(<<"r", "e", "s", "p">>)

RECURSIVE Cleaned(_)
Cleaned(vals) ==
  IF vals = <<>> THEN <<>>
  ELSE LET v == Head(vals)
           value == CandidateValue(v)
       IN (IF value = NullV THEN <<>>
           ELSE <<[model_id |-> v.model_id, value |-> value]>>) \o Cleaned(Tail(vals))

NoDetails(reason, method) == [reason |-> reason, method |-> method, samples |-> <<>>]

compare_field_values(vals) ==
  LET cleaned == Cleaned(vals) IN
  IF cleaned = <<>>
  THEN [ok |-> FALSE, v |-> NullV, details |-> NoDetails("no_values", "none")]
  ELSE IF \A i \in 1..Len(cleaned) : is_number(cleaned[i].value)
       THEN LET base == ToFloat(cleaned[1].value)
                agree == \A i \in 2..Len(cleaned) :
                           numeric_close(base, ToFloat(cleaned[i].value))
            IN IF agree
               THEN [ok |-> TRUE, v |-> NumV(base), details |-> NoDetails("none", "numeric")]
               ELSE [ok |-> FALSE, v |-> NullV,
                     details |-> [reason |-> "none", method |-> "numeric_disagree",
                                  samples |-> cleaned]]
       ELSE LET first == norm(cleaned[1].value)
                agree == \A i \in 2..Len(cleaned) : norm(cleaned[i].value) = first
            IN IF agree
               THEN [ok |-> TRUE, v |-> cleaned[1].value,
                     details |-> NoDetails("none", "string")]
               ELSE [ok |-> FALSE, v |-> NullV,
                     details |-> [reason |-> "none", method |-> "string_disagree",
                                  samples |-> cleaned]]

\* compare_field_values raises: the float() calls of the numeric branch
compare_field_values_raises(vals) ==
  LET cleaned == Cleaned(vals) IN
  /\ cleaned # <<>>
  /\ \A i \in 1..Len(cleaned) : is_number(cleaned[i].value)
  /\ \E i \in 1..Len(cleaned) : FloatRaises(cleaned[i].value)

\* aggregate field names
FieldsOf(model_results) ==
  UNION {IF IsDict(RespOrEmpty(model_results[i].resp))
         THEN DOMAIN RespOrEmpty(model_results[i].resp).items ELSE {}
         : i \in 1..Len(model_results)}

\* ValsFor with a candidate for the responses that have the field only
ValsForPresent(model_results, f) ==
  SelectSeq([i \in 1..Len(model_results) |->
               [model_id |-> model_results[i].model_id, field |-> f, hasValue |-> TRUE,
                value |-> NullV, resp |-> RespOrEmpty(model_results[i].resp)]],
            LAMBDA c : IsDict(c.resp) /\ f \in DOMAIN c.resp.items)

\* the candidate list built for field f
ValsFor(model_results, f) ==
  [i \in 1..Len(model_results) |->
     [model_id |-> model_results[i].model_id, field |-> f, hasValue |-> TRUE,
      value |-> NullV, resp |-> RespOrEmpty(model_results[i].resp)]]

compare_outputs(model_results) ==
  LET fields == FieldsOf(model_results)
      res(f) == compare_field_values(ValsFor(model_results, f))
  IN [agreed |-> [f \in {g \in fields : res(g).ok} |->
                    [value |-> res(f).v, evidence |-> ValsFor(model_results, f)]],
      disagreed |-> [f \in {g \in fields : ~res(g).ok} |->
                    [candidates |-> ValsFor(model_results, f), details |-> res(f).details]]]

\* compare_outputs raises: its only calls that can are compare_field_values'
compare_outputs_raises(model_results) ==
  \E f \in FieldsOf(model_results) :
    compare_field_values_raises(ValsFor(model_results, f))

\* ------------------------------------------------------------ run_one_pdf
FieldNames == {"f1", "f2"}
\* what a backend may store under a field: null, 72.0, {"value": 72.0},
\* {"value": 90.0}
RunEntries == {Plain(NullV), Plain(NumV(720)), Holder(NumV(720)), Holder(NumV(900))}
\* the mappings a successful remote call may return
Responses ==
  {DictResp(items) : items \in UNION {[D -> RunEntries] : D \in SUBSET FieldNames}}

ModelIds == <<"m1", "m2", "m3", "m4">>
Providers == {"openai", "deepseek"}
\* the configurations: up to MaxModels descriptors with distinct ids
Configs ==
  UNION {[1..n -> Providers] : n \in 0..MaxModels}
ModelNames == <<"name1", "name2", "name3", "name4">>
ConfigOf(provs) ==
  [i \in 1..Len(provs) |->
     [id |-> ModelIds[i], provider |-> provs[i], model_name |-> ModelNames[i]]]
\* OPENAI_MODEL as the import of llm_openai_client leaves it
DefaultModel == "name0"

\* parse_pdf: {"text": ..., "error": ...?}
PdfTexts == {<<>>, <<" ">>, <<"a">>}
PdfData == [error : BOOLEAN, text : PdfTexts]
\* a path is the sequence of its components
PdfPath == <<"pdfs", "doc.pdf">>
\* os.path.basename
Basename(path) == path[Len(path)]
\* os.path.join(out_dir, base + '.review.json'), out_dir being fixed
ReviewFn(path) == <<Basename(path), ".review.json">>

VARIABLES
  pc,          \* position in run_one_pdf
  status,      \* "running", the returned status, or "raised"
  models,      \* cfg['models']
  pdf_data,
  model_ids,
  results,
  comp,
  re_results,
  comp2,
  record_file, \* <out_dir>/<stem>.json, <<>> while absent
  review_file, \* <out_dir>/<base>.review.json, <<>> while absent
  invoked,     \* the extract calls made so far, <<round, model id>>
  aggregated,  \* the number of compare_outputs calls made so far
  reviews,     \* the number of save_review_case calls made so far
  env_model,   \* os.environ['OPENAI_MODEL']
  inflight,    \* the extract call waiting for its remote call, <<>> when none
  cmp_vals,    \* compare_field_values called on its own: the candidates
  cmp_out,     \*   what it returned
  cmp_raised,  \*   whether it raised instead
  agg_in,      \* compare_outputs called on its own: the results list
  agg_out,     \*   the report it returned
  agg_raised,  \*   whether it raised instead
  agg_calls,   \*   and the number of calls made on agg_in
  focus_args,  \* reextract: the disagreement map's keys and the snippets passed
  focus_prompt, \*   and the prompt build_focus_prompt made of them
  pdf_path,    \* main: the document being processed
  pdfs,        \*   the documents found in pdf_dir
  idx,         \*   the position of the loop in pdfs
  results_summary, \* the tallies per status
  runs,        \* the number of run_one_pdf calls made on pdf_path and out_dir
  rv_store,    \* save_review_case called on its own: the files of out_dir
  rv_clock,    \*   datetime.utcnow()
  rv_handle    \*   the file name returned last

runvars == <<pc, status, models, pdf_data, model_ids, results, comp, re_results, comp2,
             record_file, review_file, invoked, aggregated, reviews>>
envvars == <<env_model, inflight>>
purevars == <<cmp_vals, cmp_out, cmp_raised, agg_in, agg_out, agg_raised, agg_calls>>
focusvars == <<focus_args, focus_prompt>>
mainvars == <<pdf_path, pdfs, idx, results_summary, runs>>
storevars == <<rv_store, rv_clock, rv_handle>>
\* what the steps of run_one_pdf other than line 169 leave alone
sidevars == <<purevars, focusvars, mainvars, storevars>>
vars == <<runvars, envvars, sidevars>>

NoReport == [agreed |-> EmptyItems, disagreed |-> EmptyItems]
NoPdf == [error |-> FALSE, text |-> <<>>]
NoVerdict == [ok |-> FALSE, v |-> NullV, details |-> NoDetails("none", "none")]

\* build_focus_prompt: the field names listed and the snippet lines added
NoSnippets == [none |-> TRUE, text |-> [x \in {} |-> <<>>]]
Snippets(m) == [none |-> FALSE, text |-> m]
\* build_focus_prompt adding the snippets of the listed fields only
build_focus_prompt_listed(disagreement_fields, snippets) ==
  [fields |-> disagreement_fields,
   snippets |-> IF snippets.none THEN [x \in {} |-> <<>>]
                ELSE [f \in DOMAIN snippets.text \cap disagreement_fields |->
                        snippets.text[f]]]

build_focus_prompt(disagreement_fields, snippets) ==
  [fields |-> disagreement_fields,
   snippets |-> IF snippets.none \/ DOMAIN snippets.text = {}
                THEN [x \in {} |-> <<>>] ELSE snippets.text]
NoPrompt == [fields |-> {}, snippets |-> [x \in {} |-> <<>>]]
FocusIdle ==
  /\ focus_args = [fields |-> {}, snippets |-> NoSnippets] /\ focus_prompt = NoPrompt

Statuses == {"ok", "ok_after_reextract", "review", "error"}
\* results_summary = {'ok': 0, 'ok_after_reextract': 0, 'review': 0, 'error': 0}
NoTally == [st \in Statuses |-> 0]
StoreIdle == rv_store = <<>> /\ rv_clock = 0 /\ rv_handle = <<>>

\* the comparator and the aggregator not in use
PureIdle ==
  /\ cmp_vals = <<>> /\ cmp_out = NoVerdict /\ cmp_raised = FALSE
  /\ agg_in = <<>> /\ agg_out = NoReport /\ agg_raised = FALSE /\ agg_calls = 0

Init ==
  /\ pc = "parse"
  /\ status = "running"
  /\ models \in {ConfigOf(p) : p \in Configs}
  /\ pdf_data = NoPdf
  /\ model_ids = <<>>
  /\ results = <<>>
  /\ comp = NoReport
  /\ re_results = <<>>
  /\ comp2 = NoReport
  /\ record_file = <<>>
  /\ review_file = <<>>
  /\ invoked = <<>>
  /\ aggregated = 0
  /\ reviews = 0
  /\ env_model = DefaultModel
  /\ inflight = <<>>
  /\ PureIdle
  /\ FocusIdle
  /\ pdf_path = PdfPath /\ pdfs = <<PdfPath>> /\ idx = 1
  /\ results_summary = NoTally /\ runs = 1
  /\ StoreIdle

Return(st) == pc' = "done" /\ status' = st

\* ParsePdf testing the text for emptiness without strip()
ParsePdfNoStrip ==
  /\ pc = "parse"
  /\ \E pd \in PdfData :
       /\ pdf_data' = pd
       /\ IF pd.error \/ pd.text = <<>>
          THEN pc' = "done" /\ status' = "error"
          ELSE pc' = "models" /\ status' = status
  /\ UNCHANGED <<models, model_ids, results, comp, re_results, comp2, record_file,
                 review_file, invoked, aggregated, reviews>>
  /\ UNCHANGED <<envvars, sidevars>>

\* Step 1: parse the PDF; an error or no text ends the run
ParsePdf ==
  /\ pc = "parse"
  /\ \E pd \in PdfData :
       /\ pdf_data' = pd
       /\ IF pd.error \/ Strip(pd.text) = <<>>
          THEN Return("error")
          ELSE pc' = "models" /\ status' = status
  /\ UNCHANGED <<models, model_ids, results, comp, re_results, comp2, record_file,
                 review_file, invoked, aggregated, reviews>>
  /\ UNCHANGED <<envvars, sidevars>>

\* Step 3, before the loop: the configured model ids
ListModels ==
  /\ pc = "models"
  /\ model_ids' = [i \in 1..Len(models) |-> models[i].id]
  /\ IF Len(models) = 0
     THEN Return("error")
     ELSE pc' = "round1" /\ status' = status
  /\ UNCHANGED <<models, pdf_data, results, comp, re_results, comp2, record_file,
                 review_file, invoked, aggregated, reviews>>
  /\ UNCHANGED <<envvars, sidevars>>

\* ----------------------------------------- MultiModelClient (one backend)
\* _get_client_for: every provider but 'openai' either raises ValueError
\* (unsupported provider, missing key) or passes base_url to
\* LLMClient.__init__, which takes no such parameter and raises TypeError
GetClientRaises(provider) == provider # "openai"

FindModel(cfg, model_id) == {i \in 1..Len(cfg) : cfg[i].id = model_id}

\* extract: the outcomes of one call, [raised, out]; raised is TRUE when the
\* exception leaves extract (unknown id, client construction), and the remote
\* call's own failure is captured into out.resp
Raised == [raised |-> TRUE, out |-> [model_id |-> "none", provider |-> "none",
                                    resp |-> DictResp(EmptyItems)]]
extract(cfg, model_id) ==
  IF FindModel(cfg, model_id) = {} THEN {Raised}
  ELSE LET mc == cfg[CHOOSE i \in FindModel(cfg, model_id) :
                       \A j \in FindModel(cfg, model_id) : i <= j]
       IN IF GetClientRaises(mc.provider) THEN {Raised}
          ELSE {[raised |-> FALSE,
                 out |-> [model_id |-> model_id, provider |-> mc.provider, resp |-> r]]
                : r \in Responses \cup {ErrorMarker}}

ModelConfig(cfg, model_id) ==
  cfg[CHOOSE i \in FindModel(cfg, model_id) : \A j \in FindModel(cfg, model_id) : i <= j]
\* extract up to the remote call: OPENAI_MODEL is saved and overwritten, then
\* the client is built
EnvAtCall(cfg, model_id) ==
  IF FindModel(cfg, model_id) = {} THEN env_model
  ELSE ModelConfig(cfg, model_id).model_name
ExtractRaises(cfg, model_id) == Raised \in extract(cfg, model_id)
Pending(round, model_id) ==
  [round |-> round, model_id |-> model_id, prev_model |-> env_model]

\* Step 3, the loop body: extract is called for the next backend; its
\* exception is captured
CallModel ==
  /\ pc = "round1"
  /\ inflight = <<>>
  /\ Len(results) < Len(model_ids)
  /\ LET mid == model_ids[Len(results) + 1] IN
       /\ invoked' = Append(invoked, <<1, mid>>)
       /\ env_model' = EnvAtCall(models, mid)
       /\ IF ExtractRaises(models, mid)
          THEN /\ results' = Append(results,
                    [model_id |-> mid, provider |-> "none", resp |-> ErrorMarker])
               /\ inflight' = <<>>
          ELSE /\ results' = results
               /\ inflight' = Pending(1, mid)
  /\ UNCHANGED <<pc, status, models, pdf_data, model_ids, comp, re_results, comp2,
                 record_file, review_file, aggregated, reviews>>
  /\ UNCHANGED sidevars

\* the remote call ends, OPENAI_MODEL is restored and extract returns
CallModelReturn ==
  /\ pc = "round1"
  /\ inflight # <<>>
  /\ \E o \in {x \in extract(models, inflight.model_id) : ~x.raised} :
       results' = Append(results, o.out)
  /\ env_model' = inflight.prev_model
  /\ inflight' = <<>>
  /\ UNCHANGED <<pc, status, models, pdf_data, model_ids, comp, re_results, comp2,
                 record_file, review_file, invoked, aggregated, reviews>>
  /\ UNCHANGED sidevars

\* Compare1 that does not leave the round
Compare1Stalls ==
  /\ pc = "round1"
  /\ Len(results) = Len(model_ids)
  /\ comp' = compare_outputs(results)
  /\ UNCHANGED <<pc, status, models, pdf_data, model_ids, results, re_results, comp2,
                 record_file, review_file, invoked, aggregated, reviews>>
  /\ UNCHANGED <<envvars, sidevars>>

\* Step 4: compare the outputs of round 1
Compare1 ==
  /\ pc = "round1"
  /\ Len(results) = Len(model_ids)
  /\ comp' = compare_outputs(results)
  /\ aggregated' = aggregated + 1
  /\ pc' = "decide1"
  /\ UNCHANGED <<status, models, pdf_data, model_ids, results, re_results, comp2,
                 record_file, review_file, invoked, reviews>>
  /\ UNCHANGED <<envvars, sidevars>>

\* the JSON document written for an agreed report
RecordOf(report, reextracted) ==
  [pdf |-> pdf_path,
   record |-> [f \in DOMAIN report.agreed |-> report.agreed[f].value],
   models |-> model_ids,
   agreed_fields |-> DOMAIN report.agreed,
   required_reextraction |-> reextracted]

\* SaveAgreed1 without its return: the run goes on to the re-extraction
SaveAgreed1FallsThrough ==
  /\ pc = "decide1"
  /\ DOMAIN comp.disagreed = {}
  /\ record_file' = RecordOf(comp, FALSE)
  /\ re_results' = <<>>
  /\ pc' = "round2"
  /\ UNCHANGED <<status, models, pdf_data, model_ids, results, comp, comp2,
                 review_file, invoked, aggregated, reviews>>
  /\ UNCHANGED <<envvars, sidevars>>

\* all agree: save the record
SaveAgreed1 ==
  /\ pc = "decide1"
  /\ DOMAIN comp.disagreed = {}
  /\ record_file' = RecordOf(comp, FALSE)
  /\ Return("ok")
  /\ UNCHANGED <<models, pdf_data, model_ids, results, comp, re_results, comp2,
                 review_file, invoked, aggregated, reviews>>
  /\ UNCHANGED <<envvars, sidevars>>

\* what run_one_pdf still reads of round 1 once reextract has been called:
\* nothing of results, and of comp no candidate list
Released(report) ==
  [agreed |-> [f \in DOMAIN report.agreed |->
                 [value |-> report.agreed[f].value, evidence |-> <<>>]],
   disagreed |-> [f \in DOMAIN report.disagreed |->
                 [candidates |-> <<>>,
                  details |-> [report.disagreed[f].details EXCEPT !.samples = <<>>]]]]

\* Step 5: reextract is called with the same model ids
StartReextract ==
  /\ pc = "decide1"
  /\ DOMAIN comp.disagreed # {}
  /\ re_results' = <<>>
  /\ results' = <<>>
  /\ comp' = Released(comp)
  /\ pc' = "round2"
  /\ UNCHANGED <<status, models, pdf_data, model_ids, comp2, record_file, review_file,
                 invoked, aggregated, reviews>>
  /\ UNCHANGED <<envvars, purevars, mainvars, storevars>>
  /\ focus_args' = [fields |-> DOMAIN comp.disagreed, snippets |-> NoSnippets]
  /\ focus_prompt' = build_focus_prompt(focus_args'.fields, focus_args'.snippets)

\* reextract, the loop body: extract is called for the next backend; its
\* exception is not captured
ReextractCall ==
  /\ pc = "round2"
  /\ inflight = <<>>
  /\ Len(re_results) < Len(model_ids)
  /\ LET mid == model_ids[Len(re_results) + 1] IN
       /\ invoked' = Append(invoked, <<2, mid>>)
       /\ env_model' = EnvAtCall(models, mid)
       /\ IF ExtractRaises(models, mid)
          THEN Return("raised") /\ inflight' = <<>>
          ELSE inflight' = Pending(2, mid) /\ UNCHANGED <<pc, status>>
  /\ UNCHANGED <<models, pdf_data, model_ids, results, comp, re_results, comp2,
                 record_file, review_file, aggregated, reviews>>
  /\ UNCHANGED sidevars

\* the remote call ends, OPENAI_MODEL is restored and extract returns
ReextractCallReturn ==
  /\ pc = "round2"
  /\ inflight # <<>>
  /\ \E o \in {x \in extract(models, inflight.model_id) : ~x.raised} :
       re_results' = Append(re_results, o.out)
  /\ env_model' = inflight.prev_model
  /\ inflight' = <<>>
  /\ UNCHANGED <<pc, status, models, pdf_data, model_ids, results, comp, comp2,
                 record_file, review_file, invoked, aggregated, reviews>>
  /\ UNCHANGED sidevars

\* Compare2 with round 1's agreed fields carried over into the report
Compare2KeepsRound1 ==
  /\ pc = "round2"
  /\ Len(re_results) = Len(model_ids)
  /\ LET new == compare_outputs(re_results) IN
       comp2' = [agreed |-> [f \in DOMAIN comp.agreed \cup DOMAIN new.agreed |->
                               IF f \in DOMAIN comp.agreed THEN comp.agreed[f]
                               ELSE new.agreed[f]],
                 disagreed |-> [f \in DOMAIN new.disagreed \ DOMAIN comp.agreed |->
                               new.disagreed[f]]]
  /\ aggregated' = aggregated + 1
  /\ pc' = "decide2"
  /\ UNCHANGED <<status, models, pdf_data, model_ids, results, comp, re_results,
                 record_file, review_file, invoked, reviews>>
  /\ UNCHANGED <<envvars, sidevars>>

\* compare the outputs of round 2
Compare2 ==
  /\ pc = "round2"
  /\ Len(re_results) = Len(model_ids)
  /\ comp2' = compare_outputs(re_results)
  /\ aggregated' = aggregated + 1
  /\ pc' = "decide2"
  /\ UNCHANGED <<status, models, pdf_data, model_ids, results, comp, re_results,
                 record_file, review_file, invoked, reviews>>
  /\ UNCHANGED <<envvars, sidevars>>

\* re-extraction resolved all disagreements: save the record
SaveAgreed2 ==
  /\ pc = "decide2"
  /\ DOMAIN comp2.disagreed = {}
  /\ record_file' = RecordOf(comp2, TRUE)
  /\ Return("ok_after_reextract")
  /\ UNCHANGED <<models, pdf_data, model_ids, results, comp, re_results, comp2,
                 review_file, invoked, aggregated, reviews>>
  /\ UNCHANGED <<envvars, sidevars>>

\* the case save_review_case writes; its file is ReviewFn(path)
save_review_case(path, disagreements, now) ==
  [pdf |-> path, base |-> Basename(path), disagreements |-> disagreements,
   timestamp |-> now]

\* SaveReview without the test of comp2's disagreed map
SaveReviewUnguarded ==
  /\ pc = "decide2"
  /\ review_file' = save_review_case(pdf_path, comp2, rv_clock)
  /\ reviews' = reviews + 1
  /\ pc' = "done" /\ status' = "review"
  /\ UNCHANGED <<models, pdf_data, model_ids, results, comp, re_results, comp2,
                 record_file, invoked, aggregated>>
  /\ UNCHANGED <<envvars, sidevars>>

\* still disagrees: save for human review
SaveReview ==
  /\ pc = "decide2"
  /\ DOMAIN comp2.disagreed # {}
  /\ review_file' = save_review_case(pdf_path, comp2, rv_clock)
  /\ reviews' = reviews + 1
  /\ Return("review")
  /\ UNCHANGED <<models, pdf_data, model_ids, results, comp, re_results, comp2,
                 record_file, invoked, aggregated>>
  /\ UNCHANGED <<envvars, sidevars>>

Next ==
  \/ ParsePdf
  \/ ListModels
  \/ CallModel
  \/ CallModelReturn
  \/ Compare1
  \/ SaveAgreed1
  \/ StartReextract
  \/ ReextractCall
  \/ ReextractCallReturn
  \/ Compare2
  \/ SaveAgreed2
  \/ SaveReview

Spec == Init /\ [][Next]_vars
\* parse_pdf and every remote call return or raise, and the interpreter goes
\* on with the next statement
FairSpec == Spec /\ WF_vars(Next)

\* ------------------------------------- compare_field_values on its own
MaxCands == 3
\* the values a candidate may carry: null; 72.0, 72.9, 71.1, 73.1, 90.0,
\* 200.0, 202.0, 202.5; "72"; "CdSe", " cdse", "Cd Se", "Cd \t se", "CdTe";
\* ""; True; [1]
CmpValues ==
  {NullV, NumV(720), NumV(729), NumV(711), NumV(731), NumV(900),
   NumV(2000), NumV(2020), NumV(2025),
   StrV(<<"7", "2">>),
   StrV(<<"C", "d", "S", "e">>), StrV(<<" ", "c", "d", "s", "e">>),
   StrV(<<"C", "d", " ", "S", "e">>), StrV(<<"C", "d", " ", "\t", " ", "s", "e">>),
   StrV(<<"C", "d", "T", "e">>),
   StrV(<<>>), BoolV(TRUE), ListV(<<"[", "1", "]">>)}
NullResp == [kind |-> "null", items |-> EmptyItems]
\* {'model_id': ..., 'value': x}
Cand(i, x) ==
  [model_id |-> ModelIds[i], field |-> "none", hasValue |-> TRUE, value |-> x,
   resp |-> NullResp]
\* the candidates of the backends m1.. with the values xs
CandsOf(xs) == [i \in 1..Len(xs) |-> Cand(i, xs[i])]

\* no document is being processed
RunIdle ==
  /\ pc = "idle" /\ status = "running" /\ models = <<>> /\ pdf_data = NoPdf
  /\ model_ids = <<>> /\ results = <<>> /\ comp = NoReport
  /\ re_results = <<>> /\ comp2 = NoReport
  /\ record_file = <<>> /\ review_file = <<>>
  /\ invoked = <<>> /\ aggregated = 0 /\ reviews = 0
  /\ env_model = DefaultModel /\ inflight = <<>>
  /\ FocusIdle
  /\ pdf_path = PdfPath /\ pdfs = <<>> /\ idx = 0
  /\ results_summary = NoTally /\ runs = 0
  /\ StoreIdle

InitCmp ==
  /\ RunIdle
  /\ \E n \in 0..MaxCands : \E xs \in [1..n -> CmpValues] : cmp_vals = CandsOf(xs)
  /\ cmp_out = NoVerdict /\ cmp_raised = FALSE
  /\ agg_in = <<>> /\ agg_out = NoReport /\ agg_raised = FALSE /\ agg_calls = 0

\* one call compare_field_values(cmp_vals)
CompareField ==
  /\ pc = "idle"
  /\ cmp_out = NoVerdict /\ ~cmp_raised
  /\ IF compare_field_values_raises(cmp_vals)
     THEN cmp_raised' = TRUE /\ UNCHANGED cmp_out
     ELSE cmp_out' = compare_field_values(cmp_vals) /\ UNCHANGED cmp_raised
  /\ UNCHANGED <<cmp_vals, agg_in, agg_out, agg_raised, agg_calls>>
  /\ UNCHANGED <<runvars, envvars, focusvars, mainvars, storevars>>

NextCmp == CompareField
SpecCmp == InitCmp /\ [][NextCmp]_vars

\* ----------------------------------------- compare_outputs on its own
MaxResults == 3
\* what a response may store under f1: null, 72.0, {"value": null},
\* {"value": 72.0}, {"value": 90.0}, {"value": "CdSe"}, {"value": " cdse"},
\* {"value": true}, {"value": [1]}, [1], {"a": 1}
AggEntries ==
  {Plain(NullV), Plain(NumV(720)), Holder(NullV), Holder(NumV(720)), Holder(NumV(900)),
   Holder(StrV(<<"C", "d", "S", "e">>)), Holder(StrV(<<" ", "c", "d", "s", "e">>)),
   Holder(BoolV(TRUE)), Holder(ListV(<<"[", "1", "]">>)),
   Plain(ListV(<<"[", "1", "]">>)), Plain(ObjV(<<"{", "a", "}">>))}
\* and under f2: {"value": 90.0}
AggEntries2 == {Holder(NumV(900))}
AggDicts ==
  {DictResp(items) : items \in
     [{} -> AggEntries] \cup [{"f1"} -> AggEntries] \cup [{"f2"} -> AggEntries2]
       \cup {[f \in {"f1", "f2"} |-> IF f = "f1" THEN a ELSE b]
             : a \in AggEntries, b \in AggEntries2}}
\* a response: a mapping, an error marker, None, a non-empty list, a string
AggResponses ==
  AggDicts \cup {ErrorMarker, NullResp,
                 [kind |-> "list", items |-> EmptyItems],
                 [kind |-> "scalar", items |-> EmptyItems]}
\* the result list of the backends m1.. with the responses rs
ResultsOf(rs) ==
  [i \in 1..Len(rs) |-> [model_id |-> ModelIds[i], provider |-> "openai", resp |-> rs[i]]]

InitAgg ==
  /\ RunIdle
  /\ cmp_vals = <<>> /\ cmp_out = NoVerdict /\ cmp_raised = FALSE
  /\ \E n \in 0..MaxResults : \E rs \in [1..n -> AggResponses] : agg_in = ResultsOf(rs)
  /\ agg_out = NoReport /\ agg_raised = FALSE /\ agg_calls = 0

\* one call compare_outputs(agg_in)
Aggregate ==
  /\ pc = "idle"
  /\ agg_calls = 0
  /\ agg_calls' = agg_calls + 1
  /\ IF compare_outputs_raises(agg_in)
     THEN agg_raised' = TRUE /\ UNCHANGED agg_out
     ELSE agg_out' = compare_outputs(agg_in) /\ UNCHANGED agg_raised
  /\ UNCHANGED <<agg_in, cmp_vals, cmp_out, cmp_raised>>
  /\ UNCHANGED <<runvars, envvars, focusvars, mainvars, storevars>>

NextAgg == Aggregate
SpecAgg == InitAgg /\ [][NextAgg]_vars

\* ------------------------------------------------ reextract on its own
\* the client knows the backend m1; m2 is configured nowhere
FanoutConfig == ConfigOf(<<"openai">>)
FanoutIds == {"m1", "m2"}
SnippetText == <<"s">>
\* snippets: None, or a mapping of some field names to a text
SnippetArgs ==
  {NoSnippets} \cup {Snippets([f \in D |-> SnippetText]) : D \in SUBSET FieldNames}

InitFanout ==
  /\ pc = "reextract" /\ status = "running"
  /\ models = FanoutConfig
  /\ \E n \in 0..MaxModels : model_ids \in [1..n -> FanoutIds]
  /\ \E D \in SUBSET FieldNames : \E sn \in SnippetArgs :
       focus_args = [fields |-> D, snippets |-> sn]
  /\ focus_prompt = NoPrompt
  /\ pdf_data = NoPdf /\ results = <<>> /\ comp = NoReport
  /\ re_results = <<>> /\ comp2 = NoReport
  /\ record_file = <<>> /\ review_file = <<>>
  /\ invoked = <<>> /\ aggregated = 0 /\ reviews = 0
  /\ env_model = DefaultModel /\ inflight = <<>>
  /\ pdf_path = PdfPath /\ pdfs = <<>> /\ idx = 0
  /\ results_summary = NoTally /\ runs = 0
  /\ PureIdle /\ StoreIdle

\* focus_prompt = build_focus_prompt(prompt_base, disagreement_fields, snippets)
BuildFocus ==
  /\ pc = "reextract"
  /\ focus_prompt' = build_focus_prompt(focus_args.fields, focus_args.snippets)
  /\ pc' = "round2"
  /\ UNCHANGED <<status, models, pdf_data, model_ids, results, comp, re_results, comp2,
                 record_file, review_file, invoked, aggregated, reviews>>
  /\ UNCHANGED <<envvars, purevars, focus_args, mainvars, storevars>>

\* return results
ReextractDone ==
  /\ pc = "round2"
  /\ inflight = <<>>
  /\ Len(re_results) = Len(model_ids)
  /\ pc' = "returned"
  /\ UNCHANGED <<status, models, pdf_data, model_ids, results, comp, re_results, comp2,
                 record_file, review_file, invoked, aggregated, reviews>>
  /\ UNCHANGED <<envvars, sidevars>>

NextFanout == BuildFocus \/ ReextractCall \/ ReextractCallReturn \/ ReextractDone
SpecFanout == InitFanout /\ [][NextFanout]_vars

\* ---------------------------------------- save_review_case on its own
MaxSaves == 4
\* documents of two directories, two of them with the same file name
ReviewPaths == {<<"x", "a.pdf">>, <<"y", "a.pdf">>, <<"x", "b.pdf">>}
\* the disagreements passed: a report disputing f1, and one disputing f2
ReviewReports ==
  {compare_outputs(<<[model_id |-> "m1", provider |-> "openai",
                      resp |-> DictResp([x \in {f} |-> Plain(NumV(720))])]>>)
   : f \in FieldNames}

InitReview == RunIdle /\ PureIdle

\* one call save_review_case(out_dir, path, d)
SaveCase ==
  /\ pc = "idle"
  /\ rv_clock < MaxSaves
  /\ \E path \in ReviewPaths : \E d \in ReviewReports :
       /\ rv_store' = [fn \in DOMAIN rv_store \cup {ReviewFn(path)} |->
                         IF fn = ReviewFn(path)
                         THEN save_review_case(path, d, rv_clock + 1)
                         ELSE rv_store[fn]]
       /\ rv_handle' = ReviewFn(path)
  /\ rv_clock' = rv_clock + 1
  /\ UNCHANGED <<runvars, envvars, purevars, focusvars, mainvars>>

NextReview == SaveCase
SpecReview == InitReview /\ [][NextReview]_vars

\* ------------------------------------------------------------------ main
MaxDocs == 2
DocNames == <<"a.pdf", "b.pdf", "c.pdf", "d.pdf">>
\* list(pdf_dir.glob('*.pdf')) of a directory with n documents
Glob(n) == [i \in 1..n |-> <<"pdfs", DocNames[i]>>]
\* the configurations with one backend
OneBackend == {ConfigOf(<<p>>) : p \in Providers}

\* run_one_pdf is entered for a document: its locals, and no file of the
\* document in out_dir
EnterRun ==
  /\ pc' = "parse" /\ status' = "running"
  /\ pdf_data' = NoPdf /\ model_ids' = <<>> /\ results' = <<>> /\ comp' = NoReport
  /\ re_results' = <<>> /\ comp2' = NoReport
  /\ invoked' = <<>> /\ aggregated' = 0 /\ reviews' = 0
  /\ inflight' = <<>>
  /\ focus_args' = [fields |-> {}, snippets |-> NoSnippets] /\ focus_prompt' = NoPrompt

\* main has found its documents and calls run_one_pdf for the first one
InitBatch ==
  /\ pc = "parse" /\ status = "running"
  /\ models \in OneBackend
  /\ pdf_data = NoPdf /\ model_ids = <<>> /\ results = <<>> /\ comp = NoReport
  /\ re_results = <<>> /\ comp2 = NoReport
  /\ record_file = <<>> /\ review_file = <<>>
  /\ invoked = <<>> /\ aggregated = 0 /\ reviews = 0
  /\ env_model = DefaultModel /\ inflight = <<>>
  /\ \E n \in 1..MaxDocs : pdfs = Glob(n)
  /\ idx = 1 /\ pdf_path = pdfs[1]
  /\ results_summary = NoTally /\ runs = 1
  /\ PureIdle /\ FocusIdle /\ StoreIdle

\* the status main counts: result.get('status', 'error'), and error for an
\* exception
Counted == IF status = "raised" THEN "error" ELSE status

\* Tally that leaves the loop after a document that ended in error
TallyStopsOnError ==
  /\ pc = "done"
  /\ results_summary' = [results_summary EXCEPT ![Counted] = @ + 1]
  /\ IF idx < Len(pdfs) /\ Counted # "error"
     THEN /\ idx' = idx + 1 /\ pdf_path' = pdfs[idx + 1]
          /\ EnterRun
          /\ record_file' = <<>> /\ review_file' = <<>>
     ELSE /\ pc' = "summary"
          /\ UNCHANGED <<status, pdf_data, model_ids, results, comp, re_results, comp2,
                         record_file, review_file, invoked, aggregated, reviews,
                         inflight, focusvars, idx, pdf_path>>
  /\ UNCHANGED <<models, env_model, pdfs, runs, purevars, storevars>>

\* the end of an iteration of the loop over pdfs: the status is counted and
\* the loop goes on with the next document, or ends
Tally ==
  /\ pc = "done"
  /\ results_summary' = [results_summary EXCEPT ![Counted] = @ + 1]
  /\ IF idx < Len(pdfs)
     THEN /\ idx' = idx + 1 /\ pdf_path' = pdfs[idx + 1]
          /\ EnterRun
          /\ record_file' = <<>> /\ review_file' = <<>>
     ELSE /\ pc' = "summary"
          /\ UNCHANGED <<status, pdf_data, model_ids, results, comp, re_results, comp2,
                         record_file, review_file, invoked, aggregated, reviews,
                         inflight, focusvars, idx, pdf_path>>
  /\ UNCHANGED <<models, env_model, pdfs, runs, purevars, storevars>>

NextBatch == Next \/ Tally
SpecBatch == InitBatch /\ [][NextBatch]_vars

\* ------------------------------------ run_one_pdf on the same document
MaxRuns == 2
InitRerun ==
  /\ Init
  /\ models \in OneBackend

\* run_one_pdf is called again for pdf_path, with the same out_dir: the
\* files written for the document are still there
RunAgain ==
  /\ pc = "done"
  /\ runs < MaxRuns
  /\ runs' = runs + 1
  /\ EnterRun
  /\ UNCHANGED <<models, record_file, review_file, env_model, pdf_path, pdfs, idx,
                 results_summary, purevars, storevars>>

NextRerun == Next \/ RunAgain
SpecRerun == InitRerun /\ [][NextRerun]_vars

\* ================================================================ claims
\* the rounds whose results and report are both at hand in a state
Rounds ==
  (IF pc = "decide1" THEN {<<results, comp>>} ELSE {})
    \cup (IF aggregated = 2 THEN {<<re_results, comp2>>} ELSE {})

\* the value a response stores under a field: the inner value of a holder,
\* the plain value, null when the field is absent
Stored(resp, f) ==
  IF IsDict(resp) /\ f \in DOMAIN resp.items THEN resp.items[f].v ELSE NullV

IsErrorResult(r) == r.resp = ErrorMarker
NonError(rs) == SelectSeq(rs, LAMBDA r : ~IsErrorResult(r))
ReportKeys(rep) == DOMAIN rep.agreed \cup DOMAIN rep.disagreed
\* field names, verdicts and canonical values of a report
Verdicts(rep) ==
  [agreed |-> [f \in DOMAIN rep.agreed |-> rep.agreed[f].value],
   disagreed |-> DOMAIN rep.disagreed]
Round2Invoked == \E i \in 1..Len(invoked) : invoked[i][1] = 2

\* C1: the candidate of every backend result for every field is the value its
\* response stores under the field, so a field for which every backend
\* returns the same plain non-null scalar is agreed with that value and is
\* not disagreed.
C1_PlainValuesCompared ==
  \A rc \in Rounds : \A f \in FieldNames :
    /\ \A i \in 1..Len(rc[1]) :
         CandidateValue(ValsFor(rc[1], f)[i]) = Stored(rc[1][i].resp, f)
    /\ \A e \in {x \in RunEntries : ~x.holder /\ x.v # NullV} :
         (rc[1] # <<>> /\ \A i \in 1..Len(rc[1]) :
              f \in DOMAIN rc[1][i].resp.items /\ rc[1][i].resp.items[f] = e)
           => /\ f \in DOMAIN rc[2].agreed
              /\ rc[2].agreed[f].value = e.v
              /\ f \notin DOMAIN rc[2].disagreed

\* C2 (first clause): a run in which round 1 left a field disputed ends in
\* ok_after_reextract only if every field disputed in round 1 is in round 2's
\* agreed map.
C2_ReextractDoneOnlyIfResolved ==
  status = "ok_after_reextract" => DOMAIN comp.disagreed \subseteq DOMAIN comp2.agreed

\* C3: an error marker influences a report only as null candidates: the
\* report has the field names, verdicts and values of the report of the other
\* backends' results alone, and the key error is no field of it.
C3_ErrorMarkerOnlyNullCandidates ==
  \A rc \in Rounds :
    /\ Verdicts(rc[2]) = Verdicts(compare_outputs(NonError(rc[1])))
    /\ (\E i \in 1..Len(rc[1]) : IsErrorResult(rc[1][i])) => ErrorKey \notin ReportKeys(rc[2])

\* C4: no backend failure aborts a round or the run, and a completed round
\* holds one result per requested backend id, in request order.
C4_NoFailureAbortsRound ==
  /\ status # "raised"
  /\ pc = "decide1" => [i \in 1..Len(results) |-> results[i].model_id] = model_ids
  /\ pc = "decide2" => [i \in 1..Len(re_results) |-> re_results[i].model_id] = model_ids

\* C5: a field that is present in some response of a round and for which
\* every backend's value is null is in neither agreed nor disagreed.
C5_AllNullFieldExcluded ==
  \A rc \in Rounds : \A f \in FieldsOf(NonError(rc[1])) :
    (\A i \in 1..Len(rc[1]) : Stored(rc[1][i].resp, f) = NullV)
      => f \notin ReportKeys(rc[2])

\* C6: agreed and disagreed have disjoint key sets whose union is exactly the
\* set of field names that occur in the backends' response mappings.
C6_ReportPartitionsFields ==
  \A rc \in Rounds :
    /\ DOMAIN rc[2].agreed \cap DOMAIN rc[2].disagreed = {}
    /\ ReportKeys(rc[2]) = FieldsOf(NonError(rc[1]))

C8_ReviewState ==
  /\ reviews <= 1
  /\ (reviews = 1) = (review_file # <<>>)
  /\ reviews = 1
       => /\ aggregated = 2 /\ DOMAIN comp2.disagreed # {}
          /\ status = "review" /\ pc = "done"
          /\ review_file.disagreements = comp2
  /\ (pc = "done" /\ aggregated = 2 /\ DOMAIN comp2.disagreed # {}) => reviews = 1
  /\ status \in {"error", "raised", "ok", "ok_after_reextract"} => reviews = 0
C8_ReviewOnlyAfterRound2 == []C8_ReviewState /\ [][reviews = 0]_vars
C8_Witness == reviews = 1 /\ status = "review" /\ Len(model_ids) >= 2

\* C9: when every backend's round-1 result is an error marker the run ends
\* with status error: no round 2 is dispatched and nothing is saved.
AllErrors1 ==
  /\ pc = "decide1"
  /\ \A i \in 1..Len(results) : IsErrorResult(results[i])
DocumentFailure ==
  /\ pc # "parse"
  /\ \/ pdf_data.error
     \/ Strip(pdf_data.text) = <<>>
     \/ Len(models) = 0
C10_DocumentFailureIsError ==
  DocumentFailure
    => /\ pc \in {"models", "done"}
       /\ pc = "done" => status = "error"
       /\ invoked = <<>> /\ aggregated = 0
       /\ results = <<>> /\ re_results = <<>>
       /\ record_file = <<>> /\ review_file = <<>>
C10_Witness ==
  /\ pc = "done" /\ status = "error"
  /\ ~pdf_data.error /\ pdf_data.text # <<>> /\ Strip(pdf_data.text) = <<>>
  /\ Len(models) > 0

\* the model ids of the extract calls of a round, in call order
RECURSIVE InvokedIds(_, _)
InvokedIds(log, round) ==
  IF log = <<>> THEN <<>>
  ELSE (IF Head(log)[1] = round THEN <<Head(log)[2]>> ELSE <<>>)
         \o InvokedIds(Tail(log), round)
IsPrefix(a, b) == Len(a) <= Len(b) /\ a = SubSeq(b, 1, Len(a))
Round2Dispatched == status \in {"raised", "ok_after_reextract", "review"}

\* C11: every configured backend is invoked exactly once in round 1 and, when
\* round 2 is dispatched, exactly once in round 2, in the order of the
\* configured ids; there is no other invocation and no third round.
C11_EachBackendOncePerRound ==
  /\ \A i \in 1..Len(invoked) : invoked[i][1] \in {1, 2}
  /\ IsPrefix(InvokedIds(invoked, 1), model_ids)
  /\ IsPrefix(InvokedIds(invoked, 2), model_ids)
  /\ aggregated >= 1 => InvokedIds(invoked, 1) = model_ids
  /\ (pc = "done" /\ Round2Dispatched) => InvokedIds(invoked, 2) = model_ids

\* the values the responses of a result list store under a field
StoredValues(rs, f) == {Stored(rs[i].resp, f) : i \in 1..Len(rs)}

\* C12: round 2's report is a function of the round-2 results alone: it is
\* the aggregation of the round-2 result list, its candidates are the round-2
\* responses in result order, every canonical value is one a round-2
\* response stores under the field, and the record written after round 2
\* holds these values; round 1's report contributes nothing.
C12_Round2ReportFromRound2Only ==
  aggregated = 2 =>
    /\ comp2 = compare_outputs(re_results)
    /\ \A f \in DOMAIN comp2.agreed :
         /\ comp2.agreed[f].value \in StoredValues(re_results, f) \ {NullV}
         /\ Len(comp2.agreed[f].evidence) = Len(re_results)
         /\ \A i \in 1..Len(re_results) :
              comp2.agreed[f].evidence[i].resp = re_results[i].resp
    /\ \A f \in DOMAIN comp2.disagreed :
         /\ Len(comp2.disagreed[f].candidates) = Len(re_results)
         /\ \A i \in 1..Len(re_results) :
              comp2.disagreed[f].candidates[i].resp = re_results[i].resp
    /\ status = "ok_after_reextract"
         => \A f \in DOMAIN record_file.record :
              record_file.record[f] \in StoredValues(re_results, f) \ {NullV}
\* round 1 agreed on a value for a field and round 2 agrees on another one
C12_Witness ==
  /\ status = "ok_after_reextract"
  /\ \E f \in DOMAIN comp.agreed \cap DOMAIN comp2.agreed :
       /\ comp.agreed[f].value # comp2.agreed[f].value
       /\ record_file.record[f] = comp2.agreed[f].value

\* C19: OPENAI_MODEL holds in every state the value it had before the first
\* invocation: no invocation writes it.
C19_EnvModelNeverWritten == env_model = DefaultModel

\* C20: while a backend call of a round is in flight and a later backend of
\* the round has not been called, the call of that backend can be issued.
C20_LaterCallDoesNotWait ==
  /\ (pc = "round1" /\ inflight # <<>> /\ Len(results) + 1 < Len(model_ids))
       => ENABLED CallModel
  /\ (pc = "round2" /\ inflight # <<>> /\ Len(re_results) + 1 < Len(model_ids))
       => ENABLED ReextractCall

\* ---- the comparator called on its own
CmpCalled == cmp_out # NoVerdict \/ cmp_raised
\* the tag of a verdict: its details carry it under reason or under method
Tag(details) == IF details.reason # "none" THEN details.reason ELSE details.method
\* the values of the candidates, in candidate order, and the non-null ones
ValuesOf(vals) == [i \in 1..Len(vals) |-> vals[i].value]
NonNull(xs) == SelectSeq(xs, LAMBDA x : x # NullV)
\* a number or a decimal string
NumericParseable(x) == x.k = "num" \/ (x.k = "str" /\ ParseFloat(x.s) >= 0)
NumberOf(x) == IF x.k = "num" THEN x.n ELSE ParseFloat(x.s)
\* |a-b| <= max(abs_tol, rel_tol * max(|a|,|b|)), a and b in tenths
WithinTol(a, b) ==
  \/ Abs(a - b) <= AbsTolTenths
  \/ 100 * Abs(a - b) <= RelTolPercent * Abs(a)
  \/ 100 * Abs(a - b) <= RelTolPercent * Abs(b)

\* C13: on candidates whose non-null values are all numeric the comparator
\* agrees exactly when every value after the first is within tolerance of
\* the first; the value is then the first candidate's number; otherwise the
\* verdict is disagreement, value null, tag numeric_disagree.
C13_NumericAgainstFirst ==
  LET xs == NonNull(ValuesOf(cmp_vals)) IN
  (CmpCalled /\ xs # <<>> /\ \A i \in 1..Len(xs) : NumericParseable(xs[i]))
    => /\ ~cmp_raised
       /\ IF \A i \in 2..Len(xs) : WithinTol(NumberOf(xs[1]), NumberOf(xs[i]))
          THEN cmp_out.ok /\ cmp_out.v = NumV(NumberOf(xs[1]))
          ELSE /\ ~cmp_out.ok /\ cmp_out.v = NullV
               /\ Tag(cmp_out.details) = "numeric_disagree"
\* agreement on the first of three numbers, two of them within the relative
\* tolerance only and the later two not within tolerance of each other
C13_Witness ==
  LET xs == NonNull(ValuesOf(cmp_vals)) IN
  /\ CmpCalled /\ Len(xs) = 3 /\ \A i \in 1..3 : NumericParseable(xs[i])
  /\ cmp_out.ok /\ cmp_out.v = xs[1]
  /\ Abs(NumberOf(xs[1]) - NumberOf(xs[2])) > AbsTolTenths
  /\ ~WithinTol(NumberOf(xs[2]), NumberOf(xs[3]))

\* trim, collapse each whitespace run to one space, fold the case
RECURSIVE FoldWs(_, _)
FoldWs(t, st) ==
  IF t = <<>> THEN <<>>
  ELSE IF IsSpace(Head(t))
       THEN FoldWs(Tail(t), IF st = "begin" THEN "begin" ELSE "gap")
       ELSE (IF st = "gap" THEN <<" ">> ELSE <<>>) \o <<LowerChar(Head(t))>>
              \o FoldWs(Tail(t), "word")
\* the text of a value that is compared as a string
TextOf(x) ==
  CASE x.k = "num" -> FloatStr(x.n)
    [] x.k = "bool" -> IF x.n = 0 THEN <<"F", "a", "l", "s", "e">> ELSE <<"T", "r", "u", "e">>
    [] OTHER -> x.s
Normalized(x) == FoldWs(TextOf(x), "begin")

C15_NullAndEmptyDiscarded ==
  LET kept == SelectSeq(cmp_vals, LAMBDA c : c.value # NullV /\ c.value # StrV(<<>>))
      rest == compare_field_values(kept)
  IN CmpCalled =>
       /\ ~cmp_raised
       /\ cmp_out.ok = rest.ok /\ cmp_out.v = rest.v
       /\ Tag(cmp_out.details) = Tag(rest.details)
       /\ kept = <<>> => ~cmp_out.ok /\ cmp_out.v = NullV
                         /\ Tag(cmp_out.details) = "no_values"

\* ---- the aggregator called on its own
AggCalled == agg_calls = 1
\* the value a response holds for a field in a {"value": x} holder
HeldValue(resp, f) ==
  IF resp.kind = "dict" /\ f \in DOMAIN resp.items /\ resp.items[f].holder
  THEN resp.items[f].v ELSE NullV
HeldValues(rs, f) == NonNull([i \in 1..Len(rs) |-> HeldValue(rs[i].resp, f)])
FloatParseable(x) == NumericParseable(x) \/ x.k = "bool"
\* the branch of the comparison taken for a disagreed field
BranchTag(rs, f) ==
  IF HeldValues(rs, f) = <<>> THEN "no_values"
  ELSE IF \A i \in 1..Len(HeldValues(rs, f)) : FloatParseable(HeldValues(rs, f)[i])
       THEN "numeric_disagree" ELSE "string_disagree"

\* C16: every entry of the disagreed map carries exactly one tag among
\* no_values, numeric_disagree and string_disagree, the one of the branch
\* taken, and a candidate per result of the round, in result order, with the
\* result's backend id, the field name and the backend's response.
C16_DisagreedEntryAudit ==
  (AggCalled /\ ~agg_raised) =>
    \A f \in DOMAIN agg_out.disagreed :
      LET e == agg_out.disagreed[f] IN
      /\ (e.details.reason = "none") # (e.details.method = "none")
      /\ Tag(e.details) \in {"no_values", "numeric_disagree", "string_disagree"}
      /\ Tag(e.details) = BranchTag(agg_in, f)
      /\ Len(e.candidates) = Len(agg_in)
      /\ \A i \in 1..Len(agg_in) :
           /\ e.candidates[i].model_id = agg_in[i].model_id
           /\ e.candidates[i].field = f
           /\ e.candidates[i].resp =
                IF agg_in[i].resp.kind = "null" THEN DictResp(EmptyItems)
                ELSE agg_in[i].resp
\* two backends hold different values for a field and a third one failed
C16_Witness ==
  /\ AggCalled /\ Len(agg_in) = 3
  /\ \E f \in DOMAIN agg_out.disagreed :
       /\ Tag(agg_out.disagreed[f].details) \in {"numeric_disagree", "string_disagree"}
       /\ \E i \in 1..3 : agg_out.disagreed[f].candidates[i].resp = ErrorMarker

\* the report with the candidate lists left out
Outcome(rep) ==
  [agreed |-> [f \in DOMAIN rep.agreed |-> rep.agreed[f].value],
   disagreed |-> [f \in DOMAIN rep.disagreed |-> Tag(rep.disagreed[f].details)]]
Mappings(rs) == SelectSeq(rs, LAMBDA r : r.resp.kind = "dict")
\* a list or a nested mapping without a value key stored under the field
Unreadable(resp, f) ==
  /\ resp.kind = "dict" /\ f \in DOMAIN resp.items
  /\ ~resp.items[f].holder /\ resp.items[f].v.k \in {"list", "obj"}

C27_Round1AgreedKept ==
  status = "ok_after_reextract"
    => \A f \in DOMAIN comp.agreed :
         /\ f \in DOMAIN record_file.record
         /\ record_file.record[f] = comp.agreed[f].value

\* C29: once extract has finished, on any exit path, OPENAI_MODEL is what it
\* was before the call: whenever no extract call is in progress the variable
\* holds its initial value.
C29_EnvRestoredOnEveryExit == inflight = <<>> => env_model = DefaultModel

\* the outcome of a document run: an exception that leaves run_one_pdf is
\* counted by main as an error
EndState == IF status = "raised" THEN "error" ELSE status
Ended ==
  /\ EndState \in {"ok", "ok_after_reextract", "review", "error"}
  /\ \A i \in 1..Len(invoked) : invoked[i][1] \in {1, 2}
  /\ Len(InvokedIds(invoked, 1)) <= Len(model_ids)
  /\ Len(InvokedIds(invoked, 2)) <= Len(model_ids)
  /\ aggregated <= 2

\* C25: every document run eventually ends, in exactly one of the outcomes
\* ok, ok_after_reextract, review and error, after at most two rounds; and
\* once it has ended no invocation, aggregation or write follows.
C25_RunEndsAndStaysEnded ==
  /\ <>(pc = "done")
  /\ [](pc = "done" => Ended)
  /\ [](pc # "done" => status = "running")
  /\ [][pc # "done"]_vars
C25_Witness ==
  /\ pc = "done" /\ status = "ok_after_reextract" /\ aggregated = 2
  /\ Len(model_ids) >= 2 /\ Len(invoked) = 2 * Len(model_ids)

\* the results whose response stores a non-null value under the field
Suppliers(rs, f) == {i \in 1..Len(rs) : Stored(rs[i].resp, f) # NullV}
\* equality of two JSON values as python has it: True == 1.0
SameValue(a, b) ==
  a = b \/ (a.k \in {"num", "bool"} /\ b.k \in {"num", "bool"} /\ a.n = b.n)

\* C28: a field for which exactly one result of the round stores a non-null
\* value is in agreed, with that value, whatever the other results are.
C28_SingleSupplierAgreed ==
  (AggCalled /\ ~agg_raised) =>
    \A f \in FieldNames :
      \A i \in Suppliers(agg_in, f) :
        Suppliers(agg_in, f) = {i}
          => /\ f \in DOMAIN agg_out.agreed
             /\ SameValue(agg_out.agreed[f].value, Stored(agg_in[i].resp, f))

\* the orderings of a candidate list
Orderings(vals) ==
  {[i \in 1..Len(vals) |-> vals[p[i]]] :
     p \in {q \in [1..Len(vals) -> 1..Len(vals)] :
              \A i, j \in 1..Len(vals) : q[i] = q[j] => i = j}}
AllNumeric(vals) ==
  /\ NonNull(ValuesOf(vals)) # <<>>
  /\ \A i \in 1..Len(vals) : vals[i].value = NullV \/ NumericParseable(vals[i].value)
\* every value is within tolerance of the first non-null value of the list
FirstIsBaseline(vals) ==
  LET xs == NonNull(ValuesOf(vals)) IN
  \A i \in 2..Len(xs) : WithinTol(NumberOf(xs[1]), NumberOf(xs[i]))

\* C26: the numeric verdict depends on the order of the candidates through
\* the first value alone: of the orderings of the same numeric candidates,
\* those whose first value has every other value within tolerance agree, on
\* that first value, and all the others end in numeric_disagree; so the
\* verdict of one ordering need not be that of another.
C26_VerdictFollowsFirst ==
  (CmpCalled /\ AllNumeric(cmp_vals)) =>
    /\ cmp_out.ok = FirstIsBaseline(cmp_vals)
    /\ \A o \in Orderings(cmp_vals) :
         LET r == compare_field_values(o) IN
         IF FirstIsBaseline(o)
         THEN r.ok /\ r.v = NumV(NumberOf(NonNull(ValuesOf(o))[1]))
         ELSE ~r.ok /\ Tag(r.details) = "numeric_disagree"
\* the call agrees, and the same candidates in another order end in
\* numeric_disagree
C26_Witness ==
  /\ CmpCalled /\ AllNumeric(cmp_vals) /\ cmp_out.ok
  /\ \E o \in Orderings(cmp_vals) :
       /\ ~compare_field_values(o).ok
       /\ Tag(compare_field_values(o).details) = "numeric_disagree"

\* C23: the request of round 2 lists exactly the field names of the
\* disagreement map it is built for, and carries a context snippet for a
\* field exactly when one was supplied for it, with the text supplied.
C23_FocusRequestScope ==
  pc \in {"round2", "returned", "done"} =>
    /\ focus_prompt.fields = focus_args.fields
    /\ \A f \in FieldNames :
         (f \in DOMAIN focus_prompt.snippets)
           = (~focus_args.snippets.none /\ f \in DOMAIN focus_args.snippets.text)
    /\ \A f \in DOMAIN focus_prompt.snippets :
         focus_prompt.snippets[f] = focus_args.snippets.text[f]
\* one disputed field; snippets supplied for it and for a field not disputed
C23_Witness ==
  /\ pc = "returned" /\ Len(re_results) >= 1
  /\ Cardinality(focus_prompt.fields) = 1
  /\ Cardinality(DOMAIN focus_prompt.snippets) = 2

C22_ReviewCaseFrame ==
  [][\A fn \in DOMAIN rv_store :
       rv_store[fn].pdf # rv_store'[rv_handle'].pdf
         => fn \in DOMAIN rv_store' /\ rv_store'[fn] = rv_store[fn]]_vars

\* the documents counted so far
TallySum ==
  results_summary["ok"] + results_summary["ok_after_reextract"]
    + results_summary["review"] + results_summary["error"]

\* C21: main runs every document found once, in turn, whatever the outcome
\* of the documents before it; each ended run adds one to the tally of the
\* status it ended in (error for an exception that left it) and to no other;
\* and the loop ends only after the last document, the tallies then summing
\* to the number of documents.
C21_EveryDocumentCountedOnce ==
  /\ [](/\ idx \in 1..Len(pdfs) /\ pdf_path = pdfs[idx]
        /\ TallySum = (IF pc = "summary" THEN idx ELSE idx - 1)
        /\ pc = "summary" => idx = Len(pdfs))
  /\ [][/\ idx' \in {idx, idx + 1}
        /\ results_summary' # results_summary
             => /\ pc = "done"
                /\ results_summary'[Counted] = results_summary[Counted] + 1
                /\ \A st \in Statuses \ {Counted} :
                     results_summary'[st] = results_summary[st]
                /\ idx' = idx + 1 \/ (idx = Len(pdfs) /\ pc' = "summary")
        /\ idx' = idx + 1 => pc = "done" /\ pc' = "parse" /\ invoked' = <<>>]_vars
\* the first document ended in error; the second one was run and ended
\* ok_after_reextract
C21_Witness ==
  /\ pc = "summary" /\ Len(pdfs) = 2
  /\ results_summary["error"] = 1 /\ results_summary["ok_after_reextract"] = 1
  /\ status = "ok_after_reextract"

\* C30: out_dir never holds both a record and a review case of a document.
C30_RecordOrReviewNotBoth == ~(record_file # <<>> /\ review_file # <<>>)

====
